---------------------------- MODULE Spec2Model ----------------------------
(***************************************************************************)
(* Model of the DocumentProcessor component                               *)
(* (src/frontend/src/services/api.js): the React state of the component,  *)
(* the event handlers, the API calls in flight with the closures that     *)
(* await them, the progress timers, and the effect that processes         *)
(* pending files.                                                          *)
(*                                                                         *)
(* One action is one JavaScript task: a handler from its invocation to    *)
(* its first await, or the continuation that runs when an API call        *)
(* returns, together with the render and the passive effect (lines        *)
(* 251-257) that React runs when that task changed `files`, `config` or   *)
(* `currentDocument`.                                                      *)
(***************************************************************************)
EXTENDS Integers, Sequences, FiniteSets, TLC

\* ---------------------------------------------------------------- bounds
\* files selected by the user over a behaviour
MaxFiles == 2
\* process / reprocess / index API calls issued over a behaviour
MaxCalls == 4
\* timer ticks over a behaviour
MaxTicks == 1
\* timer ticks over a behaviour that follows a timer to its end
MaxProgressTicks == 19
\* clicks on a Connect button over a behaviour
MaxConnects == 1
\* changes of a configuration value over a behaviour
MaxConfigChanges == 1

\* ------------------------------------------------------ program constants
DEFAULT_CONFIG == [chunkSize |-> 800, overlapSize |-> 100, minChunkSize |-> 200]

ChunkSizeMin == 200
ChunkSizeMax == 2000
ChunkSizeStep == 100
OverlapMin == 0
OverlapMax == 300
OverlapStep == 10

ProcessStep == 5
ReprocessStep == 10
IndexStep == 5
ProgressLimit == 90
ProgressDone == 100

VARIABLES
    files,             \* useState([]): sequence of file entries
    processingStatus,  \* useState({}): id -> {status, progress, error}
    currentDocument,   \* useState(null): the entry object that was selected
    documentChunks,    \* useState([])
    config,            \* useState(DEFAULT_CONFIG)
    weaviateStatus,    \* useState('disconnected')
    embeddingStatus,   \* useState('disconnected')
    indexingStats,     \* useState(null)
    calls,             \* process / reprocess / index API calls, in request order
    uploads,           \* handleFileUpload invocations awaiting an upload call
    connects,          \* outstanding connect requests per collaborator
    statusCall,        \* the getConnectionStatus call made on mount
    alert,             \* the last message shown with alert(), else "none"
    ev,                \* the handler invocation that just returned early, else "none"
    used,              \* events counted against the budget: config changes, connects
    lim                \* the budget of the behaviour, one of Budgets

vars == <<files, processingStatus, currentDocument, documentChunks, config,
          weaviateStatus, embeddingStatus, indexingStats, calls, uploads,
          connects, statusCall, alert, ev, used, lim>>

\* ------------------------------------------------------------------ values
\* File k is the k-th File object selected; its entry is the k-th of `files`.
\* The provisional id made at line 132 and the id the upload call returns.
TmpId(k) == 0 - k
UploadId(k) == k

FileNums == 1..(MaxFiles)
Ids == {TmpId(k) : k \in FileNums} \cup {UploadId(k) : k \in FileNums}

\* null / [] / undefined
NoId == 0
NoChunks == 0
NoMetadata == 0
NoStats == 0
NoProgress == 0 - 1

\* error.message of the failure of call number k, and of the upload of file k;
\* every failure has a message of its own
NoError == 0
ErrorOf(k) == k
UploadError(k) == 0 - k

\* currentDocument = null
NoDoc == [file |-> 0, id |-> NoId, status |-> "none", chunks |-> NoChunks,
          metadata |-> NoMetadata, error |-> NoError, indexingStats |-> NoStats]

\* processingStatus[id] === undefined
NoStatus == [status |-> "none", progress |-> NoProgress, error |-> NoError]

\* The entry pushed at lines 130-137.
NewEntry(k) ==
    [file |-> k, id |-> TmpId(k), status |-> "uploading", chunks |-> NoChunks,
     metadata |-> NoMetadata, error |-> NoError, indexingStats |-> NoStats]

\* The backend answers for the ids it issued; a provisional id is unknown to it.
KnownToBackend(id) == id > 0

\* result.chunks / result.metadata / result.indexing_stats of call number k
ResultOf(k) == k

\* ---------------------------------------------------------------- helpers
\* prev.map(f => cond(f) ? upd(f) : f)
MapFiles(fs, cond(_), upd(_)) ==
    [i \in DOMAIN fs |-> IF cond(fs[i]) THEN upd(fs[i]) ELSE fs[i]]

\* setProcessingStatus(prev => ({...prev, [id]: rec}))
SetStatus(ps, id, rec) == [ps EXCEPT ![id] = rec]

\* An API call and the closure that awaits it.  `sent` records for the history
\* the chunks the document had when an index call was issued.
NewCall(kind, id, cfg, cd) ==
    [kind |-> kind, id |-> id, cfg |-> cfg, cd |-> cd, st |-> "inflight",
     timer |-> "running", progress |-> 0, was |-> "none", sent |-> NoChunks]

\* The status of the file entry with this id, "none" when there is none.
StatusOf(fs, id) ==
    IF \E i \in DOMAIN fs : fs[i].id = id
    THEN fs[CHOOSE i \in DOMAIN fs : fs[i].id = id].status
    ELSE "none"

\* The chunks of the file entry with this id, none when there is no entry.
ChunksOf(fs, id) ==
    IF \E i \in DOMAIN fs : fs[i].id = id
    THEN fs[CHOOSE i \in DOMAIN fs : fs[i].id = id].chunks
    ELSE NoChunks

\* The call once its await has returned or thrown.  A return clears the timer
\* (lines 204, 307, 399), whose counter is then dead, like the closure's
\* config and currentDocument; a throw leaves the timer running.  `was`
\* records for the history the status the file entry had at that moment.
Returned(c, fs) ==
    [c EXCEPT !.st = "ok", !.timer = "cleared", !.progress = 0,
              !.cfg = DEFAULT_CONFIG, !.cd = NoId, !.was = StatusOf(fs, c.id)]
Thrown(c, fs) ==
    [c EXCEPT !.st = "failed", !.cfg = DEFAULT_CONFIG, !.cd = NoId,
              !.was = StatusOf(fs, c.id)]

\* A processDocument that marks the document and does not call the API.
ProcessDocumentStartNoCall(w, fileId, cfg, cd) ==
    [ps |-> SetStatus(w.ps, fileId,
                      [status |-> "processing", progress |-> 0, error |-> NoError]),
     calls |-> w.calls]

\* processDocument up to its await (lines 180-201): the status entry, the
\* timer and the API call.  cfg and cd are the config and currentDocument.id
\* of the closure.  w = [ps, calls].
ProcessDocumentStart(w, fileId, cfg, cd) ==
    [ps |-> SetStatus(w.ps, fileId,
                      [status |-> "processing", progress |-> 0, error |-> NoError]),
     calls |-> Append(w.calls, NewCall("process", fileId, cfg, cd))]

PendingFiles(fs) == SelectSeq(fs, LAMBDA f : f.status = "pending")

RECURSIVE ProcessAll(_, _, _, _)
ProcessAll(pf, w, cfg, cd) ==
    IF pf = <<>> THEN w
    ELSE ProcessAll(Tail(pf), ProcessDocumentStart(w, Head(pf).id, cfg, cd), cfg, cd)

\* The effect of lines 251-257, run after a render in which `files` or
\* processDocument (that is config or currentDocument) changed.
PendingEffect(fs, w, cfg, cd) == ProcessAll(PendingFiles(fs), w, cfg, cd)

RECURSIVE SumRest(_)
SumRest(S) ==
    IF S = {} THEN 0
    ELSE LET u == CHOOSE x \in S : TRUE IN u.rest + SumRest(S \ {u})

World == [ps |-> processingStatus, calls |-> calls]

\* The behaviours explored: each spends one of these budgets, which bound
\* the files selected, the API calls issued, the timer ticks, the
\* configuration changes and the Connect clicks of the behaviour, say whether
\* the user selects documents (sel), what /status reports on mount and whether
\* sendToWeaviate and reprocessCurrentDocument are also invoked where they
\* return at once (refuse), and the calls, by number, whose timers are
\* followed (timers).  In turn: one document followed far; its timers; two documents
\* with selections; two documents and their runs; the configuration; the
\* connections; the timers of the processing calls followed to their end;
\* the timer of the reprocess or index call that comes after them.
\* the numbers API calls can have
CallNums == 1..(MaxCalls + 1)

Budgets ==
    { [files |-> 1, calls |-> MaxCalls, sel |-> 1, ticks |-> 0, cfg |-> 0,
       conn |-> 0, reported |-> {"connected"}, refuse |-> 0, timers |-> CallNums],
      [files |-> 1, calls |-> 3, sel |-> 1, ticks |-> MaxTicks, cfg |-> 0,
       conn |-> 0, reported |-> {"connected"}, refuse |-> 0, timers |-> CallNums],
      [files |-> MaxFiles, calls |-> 3, sel |-> 1, ticks |-> 0, cfg |-> 0,
       conn |-> 0, reported |-> {}, refuse |-> 0, timers |-> CallNums],
      [files |-> 2, calls |-> 5, sel |-> 0, ticks |-> 1, cfg |-> 0,
       conn |-> 0, reported |-> {}, refuse |-> 0, timers |-> CallNums],
      [files |-> 1, calls |-> 4, sel |-> 1, ticks |-> 0, cfg |-> MaxConfigChanges,
       conn |-> 0, reported |-> {}, refuse |-> 0, timers |-> CallNums],
      [files |-> 1, calls |-> 2, sel |-> 1, ticks |-> 0, cfg |-> 0,
       conn |-> MaxConnects, reported |-> {"connected", "disconnected", "failure"},
       refuse |-> 1, timers |-> CallNums],
      [files |-> 1, calls |-> 2, sel |-> 0, ticks |-> MaxProgressTicks, cfg |-> 0,
       conn |-> 0, reported |-> {}, refuse |-> 0, timers |-> {1, 2}],
      [files |-> 1, calls |-> 3, sel |-> 1, ticks |-> MaxProgressTicks, cfg |-> 0,
       conn |-> 0, reported |-> {"connected"}, refuse |-> 0, timers |-> {3}] }

\* ------------------------------------------------------------------- Init
Init ==
    /\ files = <<>>
    /\ processingStatus = [i \in Ids |-> NoStatus]
    /\ currentDocument = NoDoc
    /\ documentChunks = NoChunks
    /\ config = DEFAULT_CONFIG
    /\ weaviateStatus = "disconnected"
    /\ embeddingStatus = "disconnected"
    /\ indexingStats = NoStats
    /\ calls = <<>>
    /\ uploads = {}
    /\ connects = [weaviate |-> 0, embedder |-> 0]
    /\ statusCall = "inflight"
    /\ alert = "none"
    /\ ev = "none"
    /\ used = [cfg |-> 0, conn |-> 0, ticks |-> 0]
    /\ lim \in Budgets

\* ---------------------------------------------------------------- uploads
\* handleFileUpload (lines 125-140): n files selected; the first entry is
\* pushed and its upload call issued.  The closure keeps the config and the
\* currentDocument of the render the handler comes from; `first` records for
\* the history the first file of the selection.
HandleFileUpload(n) ==
    /\ Len(files) + SumRest(uploads) + n <= lim.files
    /\ LET k == Len(files) + 1
           fs == Append(files, NewEntry(k))
           w == PendingEffect(fs, World, config, currentDocument.id)
       IN /\ Len(w.calls) <= lim.calls
          /\ files' = fs
          /\ uploads' = uploads \cup {[file |-> k, rest |-> n - 1, cfg |-> config,
                                        cd |-> currentDocument.id, first |-> k]}
          /\ processingStatus' = w.ps
          /\ calls' = w.calls
    /\ ev' = "none"
    /\ UNCHANGED <<currentDocument, documentChunks, config, weaviateStatus,
                   embeddingStatus, indexingStats, connects, statusCall, alert,
                   used, lim>>

\* Lines 143-153: the entry of the uploaded file gets the id of the upload
\* result and status pending.
UploadedEntry(f) ==
    [f EXCEPT !.id = UploadId(f.file), !.status = "pending"]

\* Lines 165-174: the entry of the file whose upload failed.
UploadFailedEntry(f) ==
    [f EXCEPT !.status = "error", !.error = UploadError(f.file)]

\* The next iteration of the loop of line 128: the entry of the next file.
NextUpload(fs, u) ==
    IF u.rest > 0 THEN Append(fs, NewEntry(Len(fs) + 1)) ELSE fs

\* A loop that a failed upload ends: the files after it are not uploaded.
NextUploadsStopOnError(fs, u) ==
    IF u.rest > 0 /\ fs[u.file].status # "error"
    THEN (uploads \ {u}) \cup {[u EXCEPT !.file = Len(fs) + 1, !.rest = @ - 1]}
    ELSE uploads \ {u}

\* The handler after the iteration: it awaits the upload of the next file, or
\* it has returned.
NextUploads(fs, u) ==
    IF u.rest > 0
    THEN (uploads \ {u}) \cup {[u EXCEPT !.file = Len(fs) + 1, !.rest = @ - 1]}
    ELSE uploads \ {u}

\* The upload call of handler u returns (lines 140-160, then the loop and
\* the effect).
UploadSucceeds(u) ==
    /\ u \in uploads
    /\ LET fs1 == MapFiles(files, LAMBDA f : f.file = u.file, UploadedEntry)
           w1 == ProcessDocumentStart(World, UploadId(u.file), u.cfg, u.cd)
           fs2 == NextUpload(fs1, u)
           w2 == PendingEffect(fs2, w1, config, currentDocument.id)
       IN /\ Len(w2.calls) <= lim.calls
          /\ files' = fs2
          /\ uploads' = NextUploads(fs1, u)
          /\ processingStatus' = w2.ps
          /\ calls' = w2.calls
    /\ ev' = "none"
    /\ UNCHANGED <<currentDocument, documentChunks, config, weaviateStatus,
                   embeddingStatus, indexingStats, connects, statusCall, alert,
                   used, lim>>

\* The upload call of handler u throws (lines 161-175, then the loop and the
\* effect).
UploadFails(u) ==
    /\ u \in uploads
    /\ LET fs1 == MapFiles(files, LAMBDA f : f.file = u.file, UploadFailedEntry)
           fs2 == NextUpload(fs1, u)
           w2 == PendingEffect(fs2, World, config, currentDocument.id)
       IN /\ Len(w2.calls) <= lim.calls
          /\ files' = fs2
          /\ uploads' = NextUploads(fs1, u)
          /\ processingStatus' = w2.ps
          /\ calls' = w2.calls
    /\ ev' = "none"
    /\ UNCHANGED <<currentDocument, documentChunks, config, weaviateStatus,
                   embeddingStatus, indexingStats, connects, statusCall, alert,
                   used, lim>>

\* ------------------------------------------------------------- processing
\* A processing that replaces the chunks and leaves the metadata for later.
ProcessedEntryChunksOnly(f, k) ==
    [f EXCEPT !.status = "completed", !.chunks = ResultOf(k)]

\* Lines 213-223: the entry after a successful processing run k.
ProcessedEntry(f, k) ==
    [f EXCEPT !.status = "completed", !.chunks = ResultOf(k),
              !.metadata = ResultOf(k)]

\* A failure that also drops the chunks and the metadata of the entry.
FailedEntryCleared(f, k) ==
    [f EXCEPT !.status = "error", !.error = ErrorOf(k), !.chunks = NoChunks,
              !.metadata = NoMetadata]

\* Lines 237-246: the entry after the failed processing run k.
FailedEntry(f, k) ==
    [f EXCEPT !.status = "error", !.error = ErrorOf(k)]

\* Lines 232-235, 333-336, 424-427: the status entry after the failure of
\* call k; it has no progress.
ErrorStatus(k) ==
    [status |-> "error", progress |-> NoProgress, error |-> ErrorOf(k)]

\* The process call of processDocument returns (lines 203-228, then the
\* effect).
ProcessSucceeds(k) ==
    /\ k \in DOMAIN calls
    /\ calls[k].kind = "process"
    /\ calls[k].st = "inflight"
    /\ KnownToBackend(calls[k].id)
    /\ LET c == calls[k]
           cs1 == [calls EXCEPT ![k] = Returned(c, files)]
           ps1 == SetStatus(processingStatus, c.id,
                    [status |-> "completed", progress |-> ProgressDone,
                     error |-> NoError])
           fs1 == MapFiles(files, LAMBDA f : f.id = c.id,
                           LAMBDA f : ProcessedEntry(f, k))
           w == PendingEffect(fs1, [ps |-> ps1, calls |-> cs1], config,
                              currentDocument.id)
       IN /\ Len(w.calls) <= lim.calls
          /\ files' = fs1
          /\ processingStatus' = w.ps
          /\ calls' = w.calls
          /\ documentChunks' = IF c.cd # NoId /\ c.cd = c.id
                               THEN ResultOf(k) ELSE documentChunks
    /\ ev' = "none"
    /\ UNCHANGED <<currentDocument, config, weaviateStatus, embeddingStatus,
                   indexingStats, uploads, connects, statusCall, alert, used, lim>>

\* The process call of processDocument throws (lines 229-247, then the
\* effect).  The timer of line 190 is not cleared on this path.
ProcessFails(k) ==
    /\ k \in DOMAIN calls
    /\ calls[k].kind = "process"
    /\ calls[k].st = "inflight"
    /\ LET c == calls[k]
           cs1 == [calls EXCEPT ![k] = Thrown(c, files)]
           ps1 == SetStatus(processingStatus, c.id, ErrorStatus(k))
           fs1 == MapFiles(files, LAMBDA f : f.id = c.id,
                           LAMBDA f : FailedEntry(f, k))
           w == PendingEffect(fs1, [ps |-> ps1, calls |-> cs1], config,
                              currentDocument.id)
       IN /\ Len(w.calls) <= lim.calls
          /\ files' = fs1
          /\ processingStatus' = w.ps
          /\ calls' = w.calls
    /\ ev' = "none"
    /\ UNCHANGED <<currentDocument, documentChunks, config, weaviateStatus,
                   embeddingStatus, indexingStats, uploads, connects, statusCall,
                   alert, used, lim>>

\* ----------------------------------------------------------------- timers
TimerStep(kind) ==
    IF kind = "reprocess" THEN ReprocessStep
    ELSE IF kind = "index" THEN IndexStep ELSE ProcessStep

TimerStatus(kind) ==
    IF kind = "reprocess" THEN "reprocessing"
    ELSE IF kind = "index" THEN "indexing" ELSE "processing"

\* A tick that records the counter whatever its value.
TickNoLimit(k) ==
    /\ k \in DOMAIN calls
    /\ calls[k].timer = "running"
    /\ used.ticks < lim.ticks
    /\ k \in lim.timers
    /\ LET c == calls[k]
           p == c.progress + TimerStep(c.kind)
       IN /\ calls' = [calls EXCEPT ![k].progress = p]
          /\ processingStatus' =
                SetStatus(processingStatus, c.id,
                    [status |-> TimerStatus(c.kind), progress |-> p,
                     error |-> NoError])
    /\ used' = [used EXCEPT !.ticks = @ + 1]
    /\ ev' = "none"
    /\ UNCHANGED <<files, currentDocument, documentChunks, config, weaviateStatus,
                   embeddingStatus, indexingStats, uploads, connects, statusCall,
                   alert, lim>>

\* One tick of the interval of call k (lines 190-198, 293-301, 385-393).
Tick(k) ==
    /\ k \in DOMAIN calls
    /\ calls[k].timer = "running"
    /\ used.ticks < lim.ticks
    /\ k \in lim.timers
    /\ LET c == calls[k]
           p == c.progress + TimerStep(c.kind)
       IN /\ calls' = [calls EXCEPT ![k].progress = p]
          /\ processingStatus' =
                IF p <= ProgressLimit
                THEN SetStatus(processingStatus, c.id,
                        [status |-> TimerStatus(c.kind), progress |-> p,
                         error |-> NoError])
                ELSE processingStatus
    /\ used' = [used EXCEPT !.ticks = @ + 1]
    /\ ev' = "none"
    /\ UNCHANGED <<files, currentDocument, documentChunks, config, weaviateStatus,
                   embeddingStatus, indexingStats, uploads, connects, statusCall,
                   alert, lim>>

\* -------------------------------------------------------------- selection
\* handleSelectDocument (lines 260-267) on the i-th entry of the list.  An
\* empty array is truthy, so the entry's chunks are always shown.  Selecting
\* the object that is already selected changes no state and runs no effect;
\* any other selection makes a new processDocument and runs the effect.
HandleSelectDocument(i) ==
    /\ i \in DOMAIN files
    /\ lim.sel > 0
    /\ currentDocument' = files[i]
    /\ documentChunks' = files[i].chunks
    /\ LET w == IF files[i] # currentDocument
                THEN PendingEffect(files, World, config, files[i].id)
                ELSE World
       IN /\ Len(w.calls) <= lim.calls
          /\ processingStatus' = w.ps
          /\ calls' = w.calls
    /\ ev' = "none"
    /\ UNCHANGED <<files, config, weaviateStatus, embeddingStatus, indexingStats,
                   uploads, connects, statusCall, alert, used, lim>>

\* ----------------------------------------------------------- reprocessing
\* A reprocessing that keeps an indexed document indexed.
ReprocessedEntryKeepsIndexed(f, k) ==
    [f EXCEPT !.status = IF @ = "indexed" THEN "indexed" ELSE "completed",
              !.chunks = ResultOf(k), !.metadata = ResultOf(k)]

\* Lines 316-326: the entry after a successful reprocessing run k.
ReprocessedEntry(f, k) ==
    [f EXCEPT !.status = "completed", !.chunks = ResultOf(k),
              !.metadata = ResultOf(k)]

\* reprocessCurrentDocument up to its await (lines 281-304), from the Apply
\* button, which is rendered when a document is selected (line 552).
ReprocessCurrentDocument ==
    /\ currentDocument # NoDoc
    /\ Len(calls) < lim.calls
    /\ processingStatus' = SetStatus(processingStatus, currentDocument.id,
            [status |-> "reprocessing", progress |-> 0, error |-> NoError])
    /\ calls' = Append(calls, NewCall("reprocess", currentDocument.id, config,
                                      currentDocument.id))
    /\ ev' = "none"
    /\ UNCHANGED <<files, currentDocument, documentChunks, config, weaviateStatus,
                   embeddingStatus, indexingStats, uploads, connects, statusCall,
                   alert, used, lim>>

\* reprocessCurrentDocument with no document selected returns (line 282).
ReprocessRefused ==
    /\ currentDocument = NoDoc
    /\ lim.refuse > 0
    /\ ev' = "reprocess refused"
    /\ UNCHANGED <<files, processingStatus, currentDocument, documentChunks, config,
                   weaviateStatus, embeddingStatus, indexingStats, calls, uploads,
                   connects, statusCall, alert, used, lim>>

\* The process call of reprocessCurrentDocument returns (lines 306-329, then
\* the effect).
ReprocessSucceeds(k) ==
    /\ k \in DOMAIN calls
    /\ calls[k].kind = "reprocess"
    /\ calls[k].st = "inflight"
    /\ KnownToBackend(calls[k].id)
    /\ LET c == calls[k]
           cs1 == [calls EXCEPT ![k] = Returned(c, files)]
           ps1 == SetStatus(processingStatus, c.id,
                    [status |-> "completed", progress |-> ProgressDone,
                     error |-> NoError])
           fs1 == MapFiles(files, LAMBDA f : f.id = c.id,
                           LAMBDA f : ReprocessedEntry(f, k))
           w == PendingEffect(fs1, [ps |-> ps1, calls |-> cs1], config,
                              currentDocument.id)
       IN /\ Len(w.calls) <= lim.calls
          /\ files' = fs1
          /\ processingStatus' = w.ps
          /\ calls' = w.calls
          /\ documentChunks' = ResultOf(k)
    /\ ev' = "none"
    /\ UNCHANGED <<currentDocument, config, weaviateStatus, embeddingStatus,
                   indexingStats, uploads, connects, statusCall, alert, used, lim>>

\* The process call of reprocessCurrentDocument throws (lines 330-337): only
\* the status entry is written, and the timer of line 293 is not cleared.
ReprocessFails(k) ==
    /\ k \in DOMAIN calls
    /\ calls[k].kind = "reprocess"
    /\ calls[k].st = "inflight"
    /\ calls' = [calls EXCEPT ![k] = Thrown(calls[k], files)]
    /\ processingStatus' = SetStatus(processingStatus, calls[k].id, ErrorStatus(k))
    /\ ev' = "none"
    /\ UNCHANGED <<files, currentDocument, documentChunks, config, weaviateStatus,
                   embeddingStatus, indexingStats, uploads, connects, statusCall,
                   alert, used, lim>>

\* ---------------------------------------------------------- configuration
\* The values the range inputs of lines 633-656 are moved to: an end of the
\* range, or back to the default.
ChunkSizeValues == {ChunkSizeMin, DEFAULT_CONFIG.chunkSize}
OverlapValues == {OverlapMax, DEFAULT_CONFIG.overlapSize}

\* handleConfigChange('chunking', key, value) (lines 270-278), from a range
\* input, which is rendered when a document is selected (line 552), then the
\* effect: processDocument is a new function whenever config is.
HandleConfigChange(key, value) ==
    /\ currentDocument # NoDoc
    /\ used.cfg < lim.cfg
    /\ config[key] # value
    /\ LET cfg == [config EXCEPT ![key] = value]
           w == PendingEffect(files, World, cfg, currentDocument.id)
       IN /\ Len(w.calls) <= lim.calls
          /\ config' = cfg
          /\ processingStatus' = w.ps
          /\ calls' = w.calls
    /\ used' = [used EXCEPT !.cfg = @ + 1]
    /\ ev' = "none"
    /\ UNCHANGED <<files, currentDocument, documentChunks, weaviateStatus,
                   embeddingStatus, indexingStats, uploads, connects, statusCall,
                   alert, lim>>

\* ------------------------------------------------------------ connections
\* What /status reports for a collaborator.
Reported == {"connected", "disconnected"}

\* checkConnectionStatus (lines 110-122): the call made on mount returns.
StatusReturns(w, e) ==
    /\ statusCall = "inflight"
    /\ {w, e} \subseteq lim.reported
    /\ statusCall' = "done"
    /\ weaviateStatus' = w
    /\ embeddingStatus' = e
    /\ ev' = "none"
    /\ UNCHANGED <<files, processingStatus, currentDocument, documentChunks, config,
                   indexingStats, calls, uploads, connects, alert, used, lim>>

\* ... or throws: the error is logged only.
StatusFails ==
    /\ statusCall = "inflight"
    /\ "failure" \in lim.reported
    /\ statusCall' = "done"
    /\ ev' = "none"
    /\ UNCHANGED <<files, processingStatus, currentDocument, documentChunks, config,
                   weaviateStatus, embeddingStatus, indexingStats, calls, uploads,
                   connects, alert, used, lim>>

\* connectToWeaviate up to its await (lines 341-346).
ConnectToWeaviate ==
    /\ used.conn < lim.conn
    /\ weaviateStatus' = "connecting"
    /\ connects' = [connects EXCEPT !.weaviate = @ + 1]
    /\ used' = [used EXCEPT !.conn = @ + 1]
    /\ ev' = "none"
    /\ UNCHANGED <<files, processingStatus, currentDocument, documentChunks, config,
                   embeddingStatus, indexingStats, calls, uploads, statusCall,
                   alert, lim>>

\* A connect whose failure alerts and leaves the status as it is.
ConnectToWeaviateReturnsAlertOnly(ok) ==
    /\ connects.weaviate > 0
    /\ connects' = [connects EXCEPT !.weaviate = @ - 1]
    /\ weaviateStatus' = IF ok THEN "connected" ELSE weaviateStatus
    /\ alert' = IF ok THEN alert ELSE "weaviate connection failed"
    /\ ev' = "none"
    /\ UNCHANGED <<files, processingStatus, currentDocument, documentChunks, config,
                   embeddingStatus, indexingStats, calls, uploads, statusCall,
                   used, lim>>

\* The connect call returns (line 348) or throws (lines 349-353).
ConnectToWeaviateReturns(ok) ==
    /\ connects.weaviate > 0
    /\ connects' = [connects EXCEPT !.weaviate = @ - 1]
    /\ weaviateStatus' = IF ok THEN "connected" ELSE "disconnected"
    /\ alert' = IF ok THEN alert ELSE "weaviate connection failed"
    /\ ev' = "none"
    /\ UNCHANGED <<files, processingStatus, currentDocument, documentChunks, config,
                   embeddingStatus, indexingStats, calls, uploads, statusCall,
                   used, lim>>

\* connectToEmbedder up to its await (lines 357-362).
ConnectToEmbedder ==
    /\ used.conn < lim.conn
    /\ embeddingStatus' = "connecting"
    /\ connects' = [connects EXCEPT !.embedder = @ + 1]
    /\ used' = [used EXCEPT !.conn = @ + 1]
    /\ ev' = "none"
    /\ UNCHANGED <<files, processingStatus, currentDocument, documentChunks, config,
                   weaviateStatus, indexingStats, calls, uploads, statusCall,
                   alert, lim>>

\* The connect call returns (line 364) or throws (lines 365-369).
ConnectToEmbedderReturns(ok) ==
    /\ connects.embedder > 0
    /\ connects' = [connects EXCEPT !.embedder = @ - 1]
    /\ embeddingStatus' = IF ok THEN "connected" ELSE "disconnected"
    /\ alert' = IF ok THEN alert ELSE "embedder connection failed"
    /\ ev' = "none"
    /\ UNCHANGED <<files, processingStatus, currentDocument, documentChunks, config,
                   weaviateStatus, indexingStats, calls, uploads, statusCall,
                   used, lim>>

\* --------------------------------------------------------------- indexing
\* The guard of line 374.
CanSend ==
    /\ currentDocument # NoDoc
    /\ weaviateStatus = "connected"
    /\ embeddingStatus = "connected"

\* The index button (lines 717-726) is rendered when both collaborators are
\* connected and is disabled when the selected object has status indexed.
IndexButtonEnabled ==
    /\ currentDocument # NoDoc
    /\ weaviateStatus = "connected"
    /\ embeddingStatus = "connected"
    /\ currentDocument.status # "indexed"

\* An indexing that marks the entry indexed without attaching the stats.
IndexedEntryStatusOnly(f, k) ==
    [f EXCEPT !.status = "indexed"]

\* Lines 411-420: the entry after the successful index call k.
IndexedEntry(f, k) ==
    [f EXCEPT !.status = "indexed", !.indexingStats = ResultOf(k)]

\* sendToWeaviate up to its await (lines 373-396), from the index button.
SendToWeaviate ==
    /\ IndexButtonEnabled
    /\ CanSend
    /\ Len(calls) < lim.calls
    /\ processingStatus' = SetStatus(processingStatus, currentDocument.id,
            [status |-> "indexing", progress |-> 0, error |-> NoError])
    /\ calls' = Append(calls,
            [NewCall("index", currentDocument.id, config, currentDocument.id)
                EXCEPT !.sent = ChunksOf(files, currentDocument.id)])
    /\ ev' = "none"
    /\ UNCHANGED <<files, currentDocument, documentChunks, config, weaviateStatus,
                   embeddingStatus, indexingStats, uploads, connects, statusCall,
                   alert, used, lim>>

\* A sendToWeaviate that marks the document before it tests the connections.
SendToWeaviateMarksFirst ==
    /\ ~CanSend
    /\ lim.refuse > 0
    /\ currentDocument # NoDoc
    /\ processingStatus' = SetStatus(processingStatus, currentDocument.id,
            [status |-> "indexing", progress |-> 0, error |-> NoError])
    /\ ev' = "sendToWeaviate refused"
    /\ UNCHANGED <<files, currentDocument, documentChunks, config, weaviateStatus,
                   embeddingStatus, indexingStats, calls, uploads, connects,
                   statusCall, alert, used, lim>>

\* sendToWeaviate invoked while the guard of line 374 fails: it returns.
SendToWeaviateRefused ==
    /\ ~CanSend
    /\ lim.refuse > 0
    /\ ev' = "sendToWeaviate refused"
    /\ UNCHANGED <<files, processingStatus, currentDocument, documentChunks, config,
                   weaviateStatus, embeddingStatus, indexingStats, calls, uploads,
                   connects, statusCall, alert, used, lim>>

\* The index call returns (lines 398-420, then the effect).
IndexSucceeds(k) ==
    /\ k \in DOMAIN calls
    /\ calls[k].kind = "index"
    /\ calls[k].st = "inflight"
    /\ KnownToBackend(calls[k].id)
    /\ LET c == calls[k]
           cs1 == [calls EXCEPT ![k] = Returned(c, files)]
           ps1 == SetStatus(processingStatus, c.id,
                    [status |-> "indexed", progress |-> ProgressDone,
                     error |-> NoError])
           fs1 == MapFiles(files, LAMBDA f : f.id = c.id,
                           LAMBDA f : IndexedEntry(f, k))
           w == PendingEffect(fs1, [ps |-> ps1, calls |-> cs1], config,
                              currentDocument.id)
       IN /\ Len(w.calls) <= lim.calls
          /\ files' = fs1
          /\ processingStatus' = w.ps
          /\ calls' = w.calls
          /\ indexingStats' = ResultOf(k)
    /\ ev' = "none"
    /\ UNCHANGED <<currentDocument, documentChunks, config, weaviateStatus,
                   embeddingStatus, uploads, connects, statusCall, alert, used, lim>>

\* The index call throws (lines 421-430): the status entry is written and
\* the message shown; the timer of line 385 is not cleared.
IndexFails(k) ==
    /\ k \in DOMAIN calls
    /\ calls[k].kind = "index"
    /\ calls[k].st = "inflight"
    /\ calls' = [calls EXCEPT ![k] = Thrown(calls[k], files)]
    /\ processingStatus' = SetStatus(processingStatus, calls[k].id, ErrorStatus(k))
    /\ alert' = "indexing failed"
    /\ ev' = "none"
    /\ UNCHANGED <<files, currentDocument, documentChunks, config, weaviateStatus,
                   embeddingStatus, indexingStats, uploads, connects, statusCall,
                   used, lim>>

\* ------------------------------------------------------------------- Next
Next ==
    \/ \E n \in 1..MaxFiles : HandleFileUpload(n)
    \/ \E u \in uploads : UploadSucceeds(u)
    \/ \E u \in uploads : UploadFails(u)
    \/ \E k \in DOMAIN calls : ProcessSucceeds(k)
    \/ \E k \in DOMAIN calls : ProcessFails(k)
    \/ \E k \in DOMAIN calls : Tick(k)
    \/ \E i \in DOMAIN files : HandleSelectDocument(i)
    \/ ReprocessCurrentDocument
    \/ ReprocessRefused
    \/ \E k \in DOMAIN calls : ReprocessSucceeds(k)
    \/ \E k \in DOMAIN calls : ReprocessFails(k)
    \/ \E v \in ChunkSizeValues : HandleConfigChange("chunkSize", v)
    \/ \E v \in OverlapValues : HandleConfigChange("overlapSize", v)
    \/ \E w \in Reported, e \in Reported : StatusReturns(w, e)
    \/ StatusFails
    \/ ConnectToWeaviate
    \/ \E ok \in BOOLEAN : ConnectToWeaviateReturns(ok)
    \/ ConnectToEmbedder
    \/ \E ok \in BOOLEAN : ConnectToEmbedderReturns(ok)
    \/ SendToWeaviate
    \/ SendToWeaviateRefused
    \/ \E k \in DOMAIN calls : IndexSucceeds(k)
    \/ \E k \in DOMAIN calls : IndexFails(k)

Spec == Init /\ [][Next]_vars

\* ================================================================= claims
IsRun(c) == c.kind \in {"process", "reprocess"}

\* call k returns in this step, resp. throws
ReturnsNow(k) == calls[k].st = "inflight" /\ calls'[k].st = "ok"
ThrowsNow(k) == calls[k].st = "inflight" /\ calls'[k].st = "failed"

\* the calls issued in this step
IssuedNow == DOMAIN calls' \ DOMAIN calls

InFlightFor(id) == {k \in DOMAIN calls : calls[k].id = id /\ calls[k].st = "inflight"}

\* the runs requested for id, and the one requested last
RunsFor(id) == {k \in DOMAIN calls : calls[k].id = id /\ IsRun(calls[k])}
LatestRun(id) == CHOOSE k \in RunsFor(id) : \A j \in RunsFor(id) : j <= k

\* C1: at most one processing or reprocessing run is in flight for a
\* document id.
C1_OneRunPerDocument ==
    \A id \in Ids :
        Cardinality({k \in InFlightFor(id) : IsRun(calls[k])}) <= 1

\* C2: once the runs requested for a document have all returned and the one
\* requested last succeeded, the document holds the chunks and the metadata
\* of that run, whichever response arrived last.
C2_LatestRequestWins ==
    \A i \in DOMAIN files :
        LET id == files[i].id IN
        (/\ RunsFor(id) # {}
         /\ \A k \in RunsFor(id) : calls[k].st # "inflight"
         /\ calls[LatestRun(id)].st = "ok")
        => /\ files[i].chunks = ResultOf(LatestRun(id))
           /\ files[i].metadata = ResultOf(LatestRun(id))

\* C3: when the reprocess call of an indexed document returns, no other
\* request for the document being in flight, the file entry and the status
\* entry become completed; and an entry that is not indexed becomes indexed
\* only in a step in which an index call for its id returns.
C3_ReprocessInvalidatesIndex ==
    [][ /\ \A k \in DOMAIN calls :
              (/\ calls[k].kind = "reprocess"
               /\ ReturnsNow(k)
               /\ InFlightFor(calls[k].id) = {k})
              => \A i \in DOMAIN files :
                    (files[i].id = calls[k].id /\ files[i].status = "indexed")
                    => /\ files'[i].status = "completed"
                       /\ processingStatus'[calls[k].id].status = "completed"
        /\ \A i \in DOMAIN files :
              (files[i].status # "indexed" /\ files'[i].status = "indexed")
              => \E k \in DOMAIN calls :
                    /\ calls[k].kind = "index"
                    /\ calls[k].id = files[i].id
                    /\ ReturnsNow(k)
      ]_vars

\* C3 witness: a reprocess call returned for a document that was indexed,
\* which is now completed.
C3_Witness ==
    \E k \in DOMAIN calls :
        /\ calls[k].kind = "reprocess"
        /\ calls[k].st = "ok"
        /\ calls[k].was = "indexed"
        /\ StatusOf(files, calls[k].id) = "completed"
        /\ processingStatus[calls[k].id].status = "completed"

\* C4: an index call is issued, from the index button, only for a document
\* whose file entry and status entry are completed (stated for the documents
\* whose upload has returned).
C4_IndexOnlyFromCompleted ==
    [][ \A k \in IssuedNow :
            (calls'[k].kind = "index" /\ KnownToBackend(calls'[k].id))
            => /\ StatusOf(files, calls'[k].id) = "completed"
               /\ processingStatus[calls'[k].id].status = "completed"
      ]_vars

\* C5: sendToWeaviate invoked while the vector store or the embedder is not
\* connected issues no index call and leaves the file list, the status
\* entries and the indexing stats as they were.
C5_RefusedSendChangesNothing ==
    [][ (/\ ev' = "sendToWeaviate refused"
         /\ (weaviateStatus # "connected" \/ embeddingStatus # "connected"))
        => UNCHANGED <<files, processingStatus, indexingStats, calls>>
      ]_vars

\* C5 witness: sendToWeaviate has just returned early for a selected,
\* completed document while a collaborator is not connected.
C5_Witness ==
    /\ ev = "sendToWeaviate refused"
    /\ currentDocument # NoDoc
    /\ StatusOf(files, currentDocument.id) = "completed"
    /\ processingStatus[currentDocument.id].status = "completed"
    /\ (weaviateStatus # "connected" \/ embeddingStatus # "connected")

\* C6: an index attempt made while a collaborator is not connected is
\* reported: a connection error is shown, or attached to the document.
C6_RefusedSendIsReported ==
    (/\ ev = "sendToWeaviate refused"
     /\ currentDocument # NoDoc)
    => \/ alert = "connection error"
       \/ processingStatus[currentDocument.id].status = "error"

\* C7: when the index call of an uploaded document fails, neither the file
\* entry nor the status entry of the document shows error.
C7_IndexFailureIsNotError ==
    [][ \A k \in DOMAIN calls :
            (calls[k].kind = "index" /\ ThrowsNow(k) /\ KnownToBackend(calls[k].id))
            => /\ processingStatus'[calls[k].id].status # "error"
               /\ StatusOf(files', calls[k].id) # "error"
      ]_vars

\* C8: a document in error leaves error only by an explicit retry: its file
\* entry only when a reprocess call for it returns, its status entry only
\* when a reprocess of it is requested.
C8_ErrorLeftOnlyByRetry ==
    [][ /\ \A i \in DOMAIN files :
              (files[i].status = "error" /\ files'[i].status # "error")
              => \E k \in DOMAIN calls :
                    /\ calls[k].kind = "reprocess"
                    /\ calls[k].id = files[i].id
                    /\ ReturnsNow(k)
        /\ \A id \in Ids :
              (/\ processingStatus[id].status = "error"
               /\ processingStatus'[id].status # "error")
              => \E k \in IssuedNow :
                    calls'[k].kind = "reprocess" /\ calls'[k].id = id
      ]_vars

\* C9: when a processing or reprocessing run of an uploaded document fails,
\* the file entry and the status entry of the document get status error and
\* the message of the failure.
C9_FailedRunRecordsError ==
    [][ \A k \in DOMAIN calls :
            (IsRun(calls[k]) /\ ThrowsNow(k) /\ KnownToBackend(calls[k].id))
            => /\ processingStatus'[calls[k].id].status = "error"
               /\ processingStatus'[calls[k].id].error = ErrorOf(k)
               /\ \A i \in DOMAIN files :
                     files[i].id = calls[k].id
                     => /\ files'[i].status = "error"
                        /\ files'[i].error = ErrorOf(k)
      ]_vars

\* C10: a tick of the timer of a failed run does not change the status entry
\* in which that run recorded its error.
C10_ErrorSurvivesTimer ==
    [][ \A k \in DOMAIN calls :
            (/\ calls[k].st = "failed"
             /\ processingStatus[calls[k].id] = ErrorStatus(k)
             /\ calls'[k].progress # calls[k].progress)
            => processingStatus'[calls[k].id] = processingStatus[calls[k].id]
      ]_vars

\* ------------------------------------------------------------------- C11
\* The maximum number of concurrent runs of section 5 of the specification,
\* at its smallest setting.  The component has no such setting.
MaxConcurrentRuns == 1

\* the documents with a processing or reprocessing run in flight
DocumentsRunning ==
    {id \in Ids : \E k \in InFlightFor(id) : IsRun(calls[k])}

\* C11: the runs in flight across all documents never exceed the configured
\* maximum, the requests beyond it waiting in a queue: the documents with a
\* run in flight are never more than the maximum.
C11_RunsBounded == Cardinality(DocumentsRunning) <= MaxConcurrentRuns

\* ------------------------------------------------------------------- C12
\* the runs of document id that returned
RunsDone(id) == {k \in RunsFor(id) : calls[k].st = "ok"}

\* C12: in every state the chunks and the metadata of a file entry are those
\* of one and the same returned run of the document, or both still the
\* initial ones.
C12_ChunksAndMetadataTogether ==
    \A i \in DOMAIN files :
        \/ files[i].chunks = NoChunks /\ files[i].metadata = NoMetadata
        \/ \E k \in RunsDone(files[i].id) :
              files[i].chunks = ResultOf(k) /\ files[i].metadata = ResultOf(k)

\* C12 witness: a document whose chunks and metadata were replaced by a
\* second returned run.
C12_Witness ==
    \E i \in DOMAIN files :
        \E j, k \in RunsDone(files[i].id) :
            /\ j # k
            /\ files[i].chunks = ResultOf(k)
            /\ files[i].metadata = ResultOf(k)

\* ------------------------------------------------------------------- C13
\* The constraints of a chunking configuration (section 3 of the
\* specification).
ValidConfig(cfg) ==
    /\ cfg.chunkSize > cfg.minChunkSize
    /\ cfg.minChunkSize > 0
    /\ 0 <= cfg.overlapSize
    /\ cfg.overlapSize < cfg.chunkSize

\* C13: every process request is issued with a configuration that satisfies
\* chunkSize > minChunkSize > 0 and 0 <= overlapSize < chunkSize.
C13_RequestsCarryValidConfig ==
    [][ \A k \in IssuedNow : IsRun(calls'[k]) => ValidConfig(calls'[k].cfg) ]_vars

\* ------------------------------------------------------------------- C14
\* C14: when the process call of an uploaded document is rejected for its
\* invalid configuration, the file entry of the document keeps its status,
\* chunks and metadata and neither it nor the status entry shows error.
C14_ConfigErrorLeavesDocument ==
    [][ \A k \in DOMAIN calls :
            (/\ IsRun(calls[k])
             /\ ThrowsNow(k)
             /\ ~ValidConfig(calls[k].cfg)
             /\ KnownToBackend(calls[k].id))
            => /\ processingStatus'[calls[k].id].status # "error"
               /\ \A i \in DOMAIN files :
                     files[i].id = calls[k].id
                     => /\ files'[i].status = files[i].status
                        /\ files'[i].chunks = files[i].chunks
                        /\ files'[i].metadata = files[i].metadata
      ]_vars

\* ------------------------------------------------------------------- C15
\* C15: the id of a file entry never changes once the entry is in the list.
C15_IdImmutable ==
    [][ \A i \in DOMAIN files : files'[i].id = files[i].id ]_vars

\* ------------------------------------------------------------------- C16
\* the index calls of document id that returned
IndexesDone(id) ==
    {k \in DOMAIN calls :
        calls[k].kind = "index" /\ calls[k].id = id /\ calls[k].st = "ok"}

\* The indexing stats of every entry are unset or those of a returned index
\* call of the document, and an indexed document has them.
StatsFromIndexing ==
    /\ \A i \in DOMAIN files :
          /\ files[i].indexingStats # NoStats
             => \E k \in IndexesDone(files[i].id) :
                    files[i].indexingStats = ResultOf(k)
          /\ files[i].status = "indexed" => files[i].indexingStats # NoStats
          /\ processingStatus[files[i].id].status = "indexed"
             => files[i].indexingStats # NoStats

\* C16: after every step the indexing stats of a document are unset or the
\* result of a successful index call for it, and every indexed document has
\* them; a failed or a refused index attempt leaves the indexing stats of
\* every document as they were.
C16_StatsOnlyFromIndexing ==
    [][ /\ StatsFromIndexing'
        /\ ((\E k \in DOMAIN calls : calls[k].kind = "index" /\ ThrowsNow(k))
            \/ ev' = "sendToWeaviate refused")
           => /\ \A i \in DOMAIN files :
                    files'[i].indexingStats = files[i].indexingStats
              /\ indexingStats' = indexingStats
      ]_vars

\* C16 witness: a document is indexed and carries the stats of its index
\* call, after an earlier index call for it had failed.
C16_Witness ==
    \E i \in DOMAIN files :
        /\ files[i].status = "indexed"
        /\ \E k \in IndexesDone(files[i].id) : files[i].indexingStats = ResultOf(k)
        /\ \E j \in DOMAIN calls :
              /\ calls[j].kind = "index"
              /\ calls[j].id = files[i].id
              /\ calls[j].st = "failed"

\* ------------------------------------------------------------------- C17
\* the entry is that of a file whose upload failed
UploadFailed(f) == f.status = "error" /\ f.error = UploadError(f.file)

\* C17: an entry that leaves uploading without an id from the backend, its
\* upload having failed, gets status error and the message of the failure;
\* and no process request is issued for an entry whose upload failed.
C17_FailedUploadNeverProcessed ==
    [][ /\ \A i \in DOMAIN files :
              (/\ files[i].status = "uploading"
               /\ files'[i].status # "uploading"
               /\ ~KnownToBackend(files'[i].id))
              => UploadFailed(files'[i])
        /\ \A k \in IssuedNow :
              IsRun(calls'[k])
              => ~\E i \in DOMAIN files :
                     files[i].id = calls'[k].id /\ UploadFailed(files[i])
      ]_vars

\* ------------------------------------------------------------------- C18
\* C18: a change of a configuration value starts no run: no process request
\* is issued in the step that changes config.
C18_ConfigChangeStartsNoRun ==
    [][ config' # config => \A k \in IssuedNow : ~IsRun(calls'[k]) ]_vars

\* ------------------------------------------------------------------- C19
\* a reprocess of the document of index call k returned while k was in
\* flight: the chunks of the document are those of that reprocess and not
\* those it had when k was issued
ReprocessedSince(k) ==
    \E j \in DOMAIN calls :
        /\ calls[j].kind = "reprocess"
        /\ calls[j].id = calls[k].id
        /\ calls[j].st = "ok"
        /\ ChunksOf(files, calls[k].id) = ResultOf(j)
        /\ calls[k].sent # ResultOf(j)

\* C19: the success of an index call that was in flight while a reprocess of
\* the document completed does not mark the document indexed, so that an
\* indexed document holds the chunks it had when its index call was issued.
C19_LateIndexDoesNotMark ==
    [][ \A k \in DOMAIN calls :
            (calls[k].kind = "index" /\ ReturnsNow(k) /\ ReprocessedSince(k))
            => /\ StatusOf(files', calls[k].id) # "indexed"
               /\ processingStatus'[calls[k].id].status # "indexed"
      ]_vars

\* ------------------------------------------------------------------- C20
\* C20: every process request carries an id returned by an upload call,
\* never a provisional id, and none is issued for an entry that is still
\* uploading.
C20_RunsOnlyAfterUpload ==
    [][ \A k \in IssuedNow :
            IsRun(calls'[k])
            => /\ KnownToBackend(calls'[k].id)
               /\ StatusOf(files, calls'[k].id) # "uploading"
      ]_vars

\* ------------------------------------------------------------------- C21
\* call k is outstanding
InFlight(k) == k \in DOMAIN calls /\ calls[k].st = "inflight"

\* the entry of file n is in the list with this status
EntryIs(n, status) == n \in DOMAIN files /\ files[n].status = status

\* every API call eventually returns or throws: from some point on it is
\* not outstanding (a call that returned is never outstanding again)
CallsReturn == \A k \in CallNums : <>[](~InFlight(k))

\* C21: provided every API call eventually returns, an entry that is pending,
\* its upload having succeeded, eventually is completed or in error.
C21_PendingEnds ==
    CallsReturn
    => \A n \in FileNums :
          [](EntryIs(n, "pending")
             => <>(EntryIs(n, "completed") \/ EntryIs(n, "error")))

\* C21 witness: a processing call has returned for a document that was
\* pending, which is now completed.
C21_Witness ==
    \E k \in DOMAIN calls :
        /\ calls[k].kind = "process"
        /\ calls[k].st = "ok"
        /\ calls[k].was = "pending"
        /\ StatusOf(files, calls[k].id) = "completed"

\* ------------------------------------------------------------------- C22
\* C22: the failure of a processing, reprocessing or index call leaves the
\* chunks, the metadata and the indexing stats of the document as they were.
C22_FailureKeepsResult ==
    [][ \A k \in DOMAIN calls :
            ThrowsNow(k)
            => /\ indexingStats' = indexingStats
               /\ \A i \in DOMAIN files :
                     files[i].id = calls[k].id
                     => /\ files'[i].chunks = files[i].chunks
                        /\ files'[i].metadata = files[i].metadata
                        /\ files'[i].indexingStats = files[i].indexingStats
      ]_vars

\* C22 witness: a call has failed for a document that holds the chunks and
\* the metadata of an earlier run.
C22_Witness ==
    \E k \in DOMAIN calls :
        /\ calls[k].st = "failed"
        /\ \E i \in DOMAIN files :
              /\ files[i].id = calls[k].id
              /\ files[i].chunks # NoChunks
              /\ files[i].metadata # NoMetadata
              /\ \A j \in RunsDone(files[i].id) : j < k

\* ------------------------------------------------------------------- C23
\* C23: whenever a document is selected, the chunks on display are those the
\* file list holds for it.
C23_DisplayedChunksAreCurrent ==
    \A i \in DOMAIN files :
        (currentDocument # NoDoc /\ files[i].id = currentDocument.id)
        => documentChunks = files[i].chunks

\* ------------------------------------------------------------------- C24
\* C24: the selected document equals the entry of the file list that has its
\* id, in status, chunks, metadata and indexing stats.
C24_SelectionFollowsEntry ==
    \A i \in DOMAIN files :
        (currentDocument # NoDoc /\ files[i].id = currentDocument.id)
        => currentDocument = files[i]


\* ------------------------------------------------------------------- C25
\* C25: the progress timer of a run that has ended, by a return or by a
\* throw of its API call, fires no more: its counter no longer advances.
C25_NoTimerAfterEnd ==
    [][ \A k \in DOMAIN calls :
            calls[k].st # "inflight" => calls'[k].progress = calls[k].progress
      ]_vars


\* ------------------------------------------------------------------- C26
\* C26: the step in which a processing, reprocessing or indexing call for
\* document id D returns or throws leaves the file entries and the status
\* entries of all other ids as they were.
C26_RunTouchesOwnDocumentOnly ==
    [][ \A k \in DOMAIN calls :
            (ReturnsNow(k) \/ ThrowsNow(k))
            => /\ \A i \in DOMAIN files :
                    files[i].id # calls[k].id => files'[i] = files[i]
               /\ \A id \in Ids \ {calls[k].id} :
                    processingStatus'[id] = processingStatus[id]
      ]_vars


\* ------------------------------------------------------------------- C27
\* the handlers whose upload call returns or throws in this step
UploadEndsNow == uploads \ uploads'

\* C27: a handler uploads the files of its selection one at a time.  In the
\* step in which its upload call returns or throws, the entry of that file
\* stops being uploading and, when files remain, the entry of the next file
\* is created and its upload is the one the handler awaits, also after a
\* failure; an entry is created only by a new selection or by a handler whose
\* preceding upload has just ended; and every handler awaits exactly one
\* upload.
C27_UploadsOneAtATime ==
    [][ /\ \A u \in UploadEndsNow :
              /\ files[u.file].status = "uploading"
              /\ files'[u.file].status \in {"pending", "error"}
              /\ u.rest > 0
                 => \E v \in uploads' \ uploads :
                       /\ v.first = u.first
                       /\ v.rest = u.rest - 1
                       /\ v.file = Len(files) + 1
                       /\ v.file \in DOMAIN files'
                       /\ files'[v.file].status = "uploading"
              /\ u.rest = 0 => \A v \in uploads' : v.first # u.first
        /\ \A i \in DOMAIN files' \ DOMAIN files :
              /\ \E v \in uploads' \ uploads : v.file = i
              /\ \/ UploadEndsNow = {}
                 \/ \E u \in UploadEndsNow : u.rest > 0
        /\ \A v \in uploads' :
              /\ files'[v.file].status = "uploading"
              /\ \A x \in uploads' : x.first = v.first => x = v
        /\ Cardinality({i \in DOMAIN files' : files'[i].status = "uploading"})
              = Cardinality(uploads')
      ]_vars

\* C27 witness: the first upload of a selection of two files has failed and
\* the handler awaits the upload of the second file.
C27_Witness ==
    \E u \in uploads :
        /\ u.first = 1
        /\ u.file = 2
        /\ files[1].status = "error"
        /\ files[1].error = UploadError(1)
        /\ files[2].status = "uploading"


\* ------------------------------------------------------------------- C28
RunningStatuses == {"processing", "reprocessing", "indexing"}
DoneStatuses == {"completed", "indexed"}

\* C28: the progress of a status entry is between 0 and 90 while its status
\* is processing, reprocessing or indexing, and 100 when its status is
\* completed or indexed.
C28_ProgressInRange ==
    \A id \in Ids :
        LET r == processingStatus[id] IN
        /\ r.status \in RunningStatuses => r.progress \in 0..ProgressLimit
        /\ r.status \in DoneStatuses => r.progress = ProgressDone

\* C28 witness: the timer of a reprocess call has counted past the limit and
\* the status entry of the document stays at reprocessing, 90.
C28_Witness ==
    \E k \in DOMAIN calls :
        /\ calls[k].kind = "reprocess"
        /\ calls[k].timer = "running"
        /\ calls[k].progress > ProgressLimit
        /\ processingStatus[calls[k].id].status = "reprocessing"
        /\ processingStatus[calls[k].id].progress = ProgressLimit


\* ------------------------------------------------------------------- C29
\* C29: a connection status becomes connecting in the step in which a connect
\* request for that collaborator starts; in the step in which the request
\* returns it becomes connected, or disconnected with the alert of the
\* failure; and it is connecting only while such a request is outstanding.
C29_ConnectingOnlyWhileOutstanding ==
    [][ /\ connects'.weaviate > connects.weaviate => weaviateStatus' = "connecting"
        /\ connects'.embedder > connects.embedder => embeddingStatus' = "connecting"
        /\ connects'.weaviate < connects.weaviate
           => \/ weaviateStatus' = "connected" /\ alert' = alert
              \/ /\ weaviateStatus' = "disconnected"
                 /\ alert' = "weaviate connection failed"
        /\ connects'.embedder < connects.embedder
           => \/ embeddingStatus' = "connected" /\ alert' = alert
              \/ /\ embeddingStatus' = "disconnected"
                 /\ alert' = "embedder connection failed"
        /\ weaviateStatus' = "connecting" => connects'.weaviate > 0
        /\ embeddingStatus' = "connecting" => connects'.embedder > 0
      ]_vars

\* C29 witness: a connect request to the vector store has failed, none is
\* outstanding and the status is disconnected.
C29_Witness ==
    /\ alert = "weaviate connection failed"
    /\ connects.weaviate = 0
    /\ weaviateStatus = "disconnected"

=============================================================================
